---- MODULE Spec2Model ----
(***************************************************************************)
(* Model of machine-learning/app/main.py: the HTTP handlers of the ML      *)
(* service, the dispatcher run, the model loader _load and the index       *)
(* helpers _create, _add and _search.                                      *)
(*                                                                         *)
(* Two specifications share the state below.                               *)
(*   Spec       the service as it runs: requests arrive at the five POST   *)
(*              routes and the handlers run on one event loop.             *)
(*   SpecAwait  the coroutine functions _load and _create executed by      *)
(*              callers that await them, one caller per worker thread.     *)
(*   SpecPredict  the coroutine function _predict, with the _load it       *)
(*              awaits, executed the same way.                             *)
(***************************************************************************)
EXTENDS Integers, Sequences, FiniteSets, TLC

\* ------------------------------------------------------------------ bounds
MaxRows == 2      \* rows of an embeddings array
MaxCols == 11     \* columns of an embeddings array
MaxIds == 2       \* length of an embedding_ids list
MaxK == 1         \* largest k a request carries (besides the default)
NumThreads == 2   \* SpecAwait: callers running at once

\* ------------------------------------------------------- program constants
MinDim == 10      \* validate_embeddings: "Dimension size must be at least 10"
DefaultK == 10    \* search: k: int = 10

\* Two requests in flight at once: enough for every interleaving of a pair.
Reqs == {"r1", "r2"}
Names == {"a", "b"}
Ids == {"x"}
None == <<>>
Some(v) == <<v>>

Rows == 1..MaxRows
Cols == (MinDim - 1)..MaxCols
\* Shapes of the arrays np.array(embeddings) can give: 0 to 3 axes.
Shapes ==
  {<<>>} \cup {<<c>> : c \in Cols}
         \cup {<<n, c>> : n \in Rows, c \in Cols}
         \cup {<<1, 1, MinDim>>}
IdLists == UNION {[1..n -> Ids] : n \in 0..MaxIds}
KVals == 0..MaxK

\* The callers of SpecAwait, and the model handles they load.
Threads == 1..NumThreads
Models == {"m1", "m2", "m3"}
ModelType == {"clip", "facial-recognition"}
model_type(m) == IF m = "m3" THEN "facial-recognition" ELSE "clip"
\* model.loaded after a model.load() of handle m that ended with outcome o.
LoadedAfter(ld, m, o) == [ld EXCEPT ![m] = @ \/ o = "ok"]
\* How model.load() can end: it returns, it raises one of OSError,
\* InvalidProtobuf, BadZipFile, NoSuchFile, or it raises anything else.
LoadOutcomes == {"ok", "recoverable", "other"}

VARIABLES
  thread_pool,    \* app.state.thread_pool is not None
  vector_stores,  \* the registry: index name -> index
  req,            \* the requests in flight, one record per slot
  loop,           \* the request running on the event loop, or "free"
  thr,            \* SpecAwait: the callers, one record per worker thread
  loaded,         \* model.loaded of every model handle
  model_locks,    \* app.state.model_locks: the holder of each type's lock, 0 if free
  index_lock,     \* app.state.index_lock: its holder, 0 if free
  nloads,         \* history: model.load() calls started on each handle while
                  \* no load has failed (at most 2 are counted)
  load_failed     \* history: some model.load() has failed

progVars == <<thread_pool, vector_stores, req, loop>>
hist == <<nloads, load_failed>>
awaitVars == <<thr, loaded, model_locks, index_lock, nloads, load_failed>>
vars == <<thread_pool, vector_stores, req, loop, thr, loaded, model_locks, index_lock,
          nloads, load_failed>>

Idle ==
  [ep |-> "idle", pc |-> "idle", index_name |-> None, embedding_ids |-> <<>>,
   shape |-> <<>>, k |-> None, input |-> "none", options |-> "object",
   embedding_id |-> None, outputs |-> "none", result |-> "none",
   resume |-> "idle", status |-> 0, called |-> {},
   outputs_of |-> "none", add_arg |-> "none"]

IdleThread ==
  [op |-> "idle", pc |-> "idle", model |-> "none", loads |-> 0, clears |-> 0,
   first |-> "none", second |-> "none", outcome |-> "none", predicts |-> 0,
   shape |-> <<>>, ids |-> <<>>, index |-> [kind |-> "none", d |-> 0, ids |-> <<>>]]

\* ---------------------------------------------------------- pure functions

\* validate_embeddings with `<= 10` for `< 10`.
validate_embeddings_off_by_one(shape) ==
  LET expanded == IF Len(shape) = 1 THEN <<1>> \o shape ELSE shape
  IN  IF Len(shape) # 1 /\ Len(shape) # 2 THEN <<>>
      ELSE IF expanded[2] <= MinDim THEN <<>>
      ELSE expanded

\* validate_embeddings on the shape of np.array(embeddings): the validated
\* shape, or <<>> for HTTPException(400).
validate_embeddings(shape) ==
  LET expanded == IF Len(shape) = 1 THEN <<1>> \o shape ELSE shape
  IN  IF Len(shape) # 1 /\ Len(shape) # 2 THEN <<>>
      ELSE IF expanded[2] < MinDim THEN <<>>
      ELSE expanded

\* Positional parameters of the coroutine functions run is given.
Params(func) ==
  CASE func = "_predict" -> 3
    [] func = "_search" -> 3
    [] func = "_add" -> 3
    [] func = "_create" -> 2

\* What func(*args) gives, inline or on a worker of the pool: every func
\* handed to run is an `async def`, so the call binds the arguments and
\* returns a coroutine object without executing the body; a call whose
\* arguments do not bind raises TypeError.
RunResult(func, argc) ==
  IF argc = Params(func) THEN "coroutine" ELSE "TypeError"

\* ORJSONResponse(outputs): a coroutine object is not JSON serializable.
ORJSONResponse(outputs) == IF outputs = "coroutine" THEN 500 ELSE 200

\* index_name not in vector_stores or vector_stores[index_name].d != shape[1]
IndexMismatch(name, d) ==
  name \notin DOMAIN vector_stores \/ vector_stores[name].d # d

\* ------------------------------------------------------------ Init

Init ==
  /\ thread_pool \in BOOLEAN
  /\ vector_stores = <<>>
  /\ req = [r \in Reqs |-> Idle]
  /\ loop = "free"
  /\ thr = [t \in Threads |-> IdleThread]
  /\ loaded = [m \in Models |-> FALSE]
  /\ model_locks = [ty \in ModelType |-> 0]
  /\ index_lock = 0
  /\ nloads = [m \in Models |-> 0]
  /\ load_failed = FALSE

\* ------------------------------------------------- handler building blocks

\* The handler returns or raises HTTPException: the response goes out.
Finish(r, rec, status) ==
  /\ req' = [req EXCEPT ![r] = [rec EXCEPT !.pc = "done", !.status = status]]
  /\ loop' = "free"

\* await run(func, *args): inline the call is made on the event loop and the
\* handler goes on without suspending; with a thread pool the handler
\* suspends until the worker has made the call.
run(r, rec, func, argc, next) ==
  LET called == [rec EXCEPT !.called = @ \cup {func},
                            !.result = RunResult(func, argc)]
  IN  IF thread_pool
      THEN /\ req' = [req EXCEPT ![r] = [called EXCEPT !.pc = "await_executor",
                                                       !.resume = next]]
           /\ loop' = "free"
      ELSE /\ req' = [req EXCEPT ![r] = [called EXCEPT !.pc = next]]
           /\ loop' = r

Raised(r) == req[r].result = "TypeError"

\* ------------------------------------------------------------ requests

\* A request arrives at one of the POST routes.
Request(r) ==
  /\ req[r].ep = "idle"
  /\ \/ \E input \in {"image", "text", "none"}, options \in {"object", "malformed"},
          index_name \in {None} \cup {Some(n) : n \in Names},
          embedding_id \in {None} \cup {Some(i) : i \in Ids},
          k \in {None} \cup {Some(v) : v \in KVals} :
          req' = [req EXCEPT ![r] = [Idle EXCEPT
                    !.ep = "pipeline", !.pc = "pipeline", !.input = input,
                    !.options = options, !.index_name = index_name,
                    !.embedding_id = embedding_id, !.k = k]]
     \/ \E input \in {"image", "text", "none"}, options \in {"object", "malformed"} :
          req' = [req EXCEPT ![r] = [Idle EXCEPT
                    !.ep = "predict", !.pc = "predict", !.input = input,
                    !.options = options]]
     \/ \E n \in Names, shape \in Shapes, k \in KVals \cup {DefaultK} :
          req' = [req EXCEPT ![r] = [Idle EXCEPT
                    !.ep = "search", !.pc = "validate", !.index_name = Some(n),
                    !.shape = shape, !.k = Some(k)]]
     \/ \E ep \in {"add", "create"}, n \in Names, ids \in IdLists, shape \in Shapes :
          req' = [req EXCEPT ![r] = [Idle EXCEPT
                    !.ep = ep, !.pc = "validate", !.index_name = Some(n),
                    !.embedding_ids = ids, !.shape = shape]]
  /\ UNCHANGED <<thread_pool, vector_stores, loop>>
  /\ UNCHANGED awaitVars

\* Depends(validate_embeddings) of search, add and create.
Validate(r) ==
  /\ req[r].pc = "validate"
  /\ LET v == validate_embeddings(req[r].shape)
     IN  req' = [req EXCEPT ![r] =
           IF v = <<>> THEN [@ EXCEPT !.pc = "done", !.status = 400]
           ELSE [@ EXCEPT !.pc = req[r].ep, !.shape = v]]
  /\ UNCHANGED <<thread_pool, vector_stores, loop>>
  /\ UNCHANGED awaitVars

\* The worker has made the call: the suspended handler resumes.
Resume(r) ==
  /\ req[r].pc = "await_executor"
  /\ loop = "free"
  /\ req' = [req EXCEPT ![r].pc = req[r].resume]
  /\ loop' = r
  /\ UNCHANGED <<thread_pool, vector_stores>>
  /\ UNCHANGED awaitVars

\* ------------------------------------------------------------ /pipeline

\* pipeline, to its first await run.
pipeline(r) ==
  /\ req[r].pc = "pipeline"
  /\ loop = "free"
  /\ IF req[r].input = "none" THEN Finish(r, req[r], 400)
     ELSE IF req[r].options = "malformed" THEN Finish(r, req[r], 400)
     ELSE run(r, req[r], "_predict", 3, "pipeline_index")
  /\ UNCHANGED <<thread_pool, vector_stores>>
  /\ UNCHANGED awaitVars

\* The add step and the response of pipeline.
pipeline_add(r, rec) ==
  IF rec.index_name # None /\ rec.embedding_id # None
  THEN run(r, [rec EXCEPT !.add_arg = rec.outputs_of], "_add", 3, "return")
  ELSE Finish(r, rec, ORJSONResponse(rec.outputs))

\* pipeline after the predict step.
pipeline_index(r) ==
  /\ req[r].pc = "pipeline_index"
  /\ loop = r
  /\ LET rec == [req[r] EXCEPT !.outputs = req[r].result,
                               !.outputs_of = "_predict"]
     IN  IF Raised(r) THEN Finish(r, req[r], 500)
         ELSE IF rec.index_name # None /\ rec.k # None
         THEN IF rec.k[1] < 1 THEN Finish(r, rec, 400)
              ELSE run(r, rec, "_search", 3, "pipeline_searched")
         ELSE pipeline_add(r, rec)
  /\ UNCHANGED <<thread_pool, vector_stores>>
  /\ UNCHANGED awaitVars

\* pipeline after the search step.
pipeline_searched(r) ==
  /\ req[r].pc = "pipeline_searched"
  /\ loop = r
  /\ IF Raised(r) THEN Finish(r, req[r], 500)
     ELSE pipeline_add(r, [req[r] EXCEPT !.outputs = req[r].result,
                                         !.outputs_of = "_search"])
  /\ UNCHANGED <<thread_pool, vector_stores>>
  /\ UNCHANGED awaitVars

\* ------------------------------------------------------------ /predict

predict(r) ==
  /\ req[r].pc = "predict"
  /\ loop = "free"
  /\ IF req[r].input = "none" THEN Finish(r, req[r], 400)
     ELSE IF req[r].options = "malformed" THEN Finish(r, req[r], 400)
     ELSE run(r, req[r], "_predict", 3, "return")
  /\ UNCHANGED <<thread_pool, vector_stores>>
  /\ UNCHANGED awaitVars

\* ------------------------------------------------------------ /index

\* search without the registry check of lines 132-133.
search_unchecked(r) ==
  /\ req[r].pc = "search"
  /\ loop = "free"
  /\ run(r, req[r], "_search", 3, "return")
  /\ UNCHANGED <<thread_pool, vector_stores>>
  /\ UNCHANGED awaitVars

search(r) ==
  /\ req[r].pc = "search"
  /\ loop = "free"
  /\ IF IndexMismatch(req[r].index_name[1], req[r].shape[2])
     THEN Finish(r, req[r], 404)
     ELSE run(r, req[r], "_search", 3, "return")
  /\ UNCHANGED <<thread_pool, vector_stores>>
  /\ UNCHANGED awaitVars

\* create without the count check of lines 156-157.
create_body_unchecked(r) ==
  run(r, req[r], "_create", 0, "create_assign")

\* The body of create, which add calls too.
create_body(r) ==
  IF req[r].shape[1] # Len(req[r].embedding_ids) THEN Finish(r, req[r], 400)
  ELSE run(r, req[r], "_create", 0, "create_assign")

create(r) ==
  /\ req[r].pc = "create"
  /\ loop = "free"
  /\ create_body(r)
  /\ UNCHANGED <<thread_pool, vector_stores>>
  /\ UNCHANGED awaitVars

\* vector_stores[index_name] = <what await run(_create) gave>
create_assign(r) ==
  /\ req[r].pc = "create_assign"
  /\ loop = r
  /\ IF Raised(r)
     THEN /\ Finish(r, req[r], 500)
          /\ UNCHANGED vector_stores
     ELSE /\ vector_stores' =
               [n \in DOMAIN vector_stores \cup {req[r].index_name[1]} |->
                  IF n = req[r].index_name[1]
                  THEN [kind |-> req[r].result, d |-> 0, ids |-> <<>>]
                  ELSE vector_stores[n]]
          /\ Finish(r, req[r], 200)
  /\ UNCHANGED thread_pool
  /\ UNCHANGED awaitVars

add(r) ==
  /\ req[r].pc = "add"
  /\ loop = "free"
  /\ IF IndexMismatch(req[r].index_name[1], req[r].shape[2])
     THEN create_body(r)
     ELSE run(r, [req[r] EXCEPT !.add_arg = "embeddings"], "_add", 3, "return")
  /\ UNCHANGED <<thread_pool, vector_stores>>
  /\ UNCHANGED awaitVars

\* The last statement of a handler after its last await run.
return(r) ==
  /\ req[r].pc = "return"
  /\ loop = r
  /\ IF Raised(r) THEN Finish(r, req[r], 500)
     ELSE IF req[r].ep \in {"predict", "search"}
     THEN Finish(r, [req[r] EXCEPT !.outputs = req[r].result,
                                   !.outputs_of = "_" \o req[r].ep],
                 ORJSONResponse(req[r].result))
     ELSE IF req[r].ep = "pipeline"
     THEN Finish(r, req[r], ORJSONResponse(req[r].outputs))
     ELSE Finish(r, req[r], 200)
  /\ UNCHANGED <<thread_pool, vector_stores>>
  /\ UNCHANGED awaitVars

\* The response has gone out; the slot takes the next request.
Reset(r) ==
  /\ req[r].pc = "done"
  /\ req' = [req EXCEPT ![r] = Idle]
  /\ UNCHANGED <<thread_pool, vector_stores, loop>>
  /\ UNCHANGED awaitVars

Next ==
  \E r \in Reqs :
    \/ Request(r) \/ Validate(r) \/ Resume(r)
    \/ pipeline(r) \/ pipeline_index(r) \/ pipeline_searched(r)
    \/ predict(r) \/ search(r) \/ add(r) \/ create(r) \/ create_assign(r)
    \/ return(r) \/ Reset(r)

Spec == Init /\ [][Next]_vars

\* ================================================================ SpecAwait
\* _load and _create as a caller that awaits them executes them. Neither
\* body has an await of its own, so a caller runs it from start to end on
\* its own thread; the callers' threads interleave statement by statement,
\* and a `with lock:` blocks its thread while another holds the lock.

\* return model: _load is left; a caller inside _predict goes on to line 206.
Returned(rec) ==
  IF rec.op = "_predict" THEN [rec EXCEPT !.pc = "configure"]
  ELSE [rec EXCEPT !.pc = "done", !.outcome = "returned"]

\* The history after a model.load() on handle m has started.
LoadStarted(m) ==
  IF load_failed \/ nloads[m] >= 2 THEN nloads ELSE [nloads EXCEPT ![m] = @ + 1]

\* The history after a model.load() has ended with outcome o.
LoadEnded(o) ==
  /\ load_failed' = (load_failed \/ o # "ok")
  /\ nloads' = IF o # "ok" THEN [m \in Models |-> 0] ELSE nloads

\* await _load(model): the call of line 205.
await_load(t) ==
  /\ thr[t].op = "idle"
  /\ \E m \in Models :
       thr' = [thr EXCEPT ![t] = [IdleThread EXCEPT
                 !.op = "_load", !.pc = "load_enter", !.model = m]]
  /\ UNCHANGED <<loaded, model_locks, index_lock>>
  /\ UNCHANGED hist
  /\ UNCHANGED progVars

\* if model.loaded: return model
load_enter(t) ==
  /\ thr[t].pc = "load_enter"
  /\ thr' = [thr EXCEPT ![t] =
       IF loaded[thr[t].model]
       THEN Returned(@)
       ELSE [@ EXCEPT !.pc = "load_acquire"]]
  /\ UNCHANGED <<loaded, model_locks, index_lock>>
  /\ UNCHANGED hist
  /\ UNCHANGED progVars

\* with app.state.model_locks[model.model_type]:
load_acquire(t) ==
  /\ thr[t].pc = "load_acquire"
  /\ model_locks[model_type(thr[t].model)] = 0
  /\ model_locks' = [model_locks EXCEPT ![model_type(thr[t].model)] = t]
  /\ thr' = [thr EXCEPT ![t].pc = "load_locked"]
  /\ UNCHANGED <<loaded, index_lock>>
  /\ UNCHANGED hist
  /\ UNCHANGED progVars

\* Inside the with block model.load() starts without the second look at
\* model.loaded.
load_locked_unchecked(t) ==
  /\ thr[t].pc = "load_locked"
  /\ thr' = [thr EXCEPT ![t].pc = "loading", ![t].loads = @ + 1]
  /\ nloads' = LoadStarted(thr[t].model)
  /\ UNCHANGED <<loaded, index_lock, load_failed, model_locks>>
  /\ UNCHANGED progVars

\* if not model.loaded: model.load() starts; else the with block is left.
load_locked(t) ==
  /\ thr[t].pc = "load_locked"
  /\ IF ~loaded[thr[t].model]
     THEN /\ thr' = [thr EXCEPT ![t].pc = "loading", ![t].loads = @ + 1]
          /\ nloads' = LoadStarted(thr[t].model)
          /\ UNCHANGED model_locks
     ELSE /\ thr' = [thr EXCEPT ![t] = Returned(@)]
          /\ model_locks' = [model_locks EXCEPT ![model_type(thr[t].model)] = 0]
          /\ UNCHANGED nloads
  /\ UNCHANGED <<loaded, index_lock, load_failed>>
  /\ UNCHANGED progVars

\* model.load() of line 179 ends; the with block is left, which releases
\* the lock; a recoverable failure enters the except clause, any other
\* failure leaves _load.
load_done(t) ==
  /\ thr[t].pc = "loading"
  /\ \E o \in LoadOutcomes :
       /\ thr' = [thr EXCEPT ![t] =
            CASE o = "ok" -> Returned([@ EXCEPT !.first = o])
              [] o = "recoverable" -> [@ EXCEPT !.first = o, !.pc = "clear_cache"]
              [] o = "other" -> [@ EXCEPT !.first = o, !.pc = "done", !.outcome = "raised"]]
       /\ loaded' = LoadedAfter(loaded, thr[t].model, o)
       /\ LoadEnded(o)
  /\ model_locks' = [model_locks EXCEPT ![model_type(thr[t].model)] = 0]
  /\ UNCHANGED index_lock
  /\ UNCHANGED progVars

\* model.clear_cache()
load_clear_cache(t) ==
  /\ thr[t].pc = "clear_cache"
  /\ thr' = [thr EXCEPT ![t].pc = "load_retry", ![t].clears = @ + 1]
  /\ UNCHANGED <<loaded, model_locks, index_lock>>
  /\ UNCHANGED hist
  /\ UNCHANGED progVars

\* model.load() of line 188 starts.
load_retry(t) ==
  /\ thr[t].pc = "load_retry"
  /\ thr' = [thr EXCEPT ![t].pc = "reloading", ![t].loads = @ + 1]
  /\ nloads' = LoadStarted(thr[t].model)
  /\ UNCHANGED <<loaded, model_locks, index_lock, load_failed>>
  /\ UNCHANGED progVars

\* A second failure sends the caller back to the except clause.
load_retry_done_again(t) ==
  /\ thr[t].pc = "reloading"
  /\ \E o \in LoadOutcomes :
       /\ thr' = [thr EXCEPT ![t] =
            CASE o = "ok" -> Returned([@ EXCEPT !.second = o])
              [] o = "recoverable" -> [@ EXCEPT !.second = o, !.pc = "clear_cache"]
              [] o = "other" -> [@ EXCEPT !.second = o, !.pc = "done", !.outcome = "raised"]]
       /\ loaded' = LoadedAfter(loaded, thr[t].model, o)
       /\ LoadEnded(o)
  /\ UNCHANGED <<model_locks, index_lock>>
  /\ UNCHANGED progVars

\* The failure of the second load is swallowed and the model is returned.
load_retry_done_swallowed(t) ==
  /\ thr[t].pc = "reloading"
  /\ \E o \in LoadOutcomes :
       /\ thr' = [thr EXCEPT ![t] = Returned([@ EXCEPT !.second = o])]
       /\ loaded' = LoadedAfter(loaded, thr[t].model, o)
       /\ LoadEnded(o)
  /\ UNCHANGED <<model_locks, index_lock>>
  /\ UNCHANGED progVars

\* model.load() of line 188 ends: return model, or its failure leaves _load.
load_retry_done(t) ==
  /\ thr[t].pc = "reloading"
  /\ \E o \in LoadOutcomes :
       /\ thr' = [thr EXCEPT ![t] =
            IF o = "ok"
            THEN Returned([@ EXCEPT !.second = o])
            ELSE [@ EXCEPT !.second = o, !.pc = "done", !.outcome = "raised"]]
       /\ loaded' = LoadedAfter(loaded, thr[t].model, o)
       /\ LoadEnded(o)
  /\ UNCHANGED <<model_locks, index_lock>>
  /\ UNCHANGED progVars

\* await _create(embedding_ids, embeddings) with validated embeddings and
\* one id per row.
await_create(t) ==
  /\ thr[t].op = "idle"
  /\ \E shape \in Shapes, ids \in IdLists :
       /\ Len(shape) = 2
       /\ validate_embeddings(shape) = shape
       /\ Len(ids) = shape[1]
       /\ thr' = [thr EXCEPT ![t] = [IdleThread EXCEPT
                    !.op = "_create", !.pc = "create_new", !.shape = shape,
                    !.ids = ids]]
  /\ UNCHANGED <<loaded, model_locks, index_lock>>
  /\ UNCHANGED hist
  /\ UNCHANGED progVars

\* hnsw_index = faiss.IndexHNSWFlat(embeddings.shape[1]); IndexIDMap2 of it
create_new(t) ==
  /\ thr[t].pc = "create_new"
  /\ thr' = [thr EXCEPT ![t].pc = "create_acquire",
                        ![t].index = [kind |-> "index", d |-> thr[t].shape[2],
                                      ids |-> <<>>]]
  /\ UNCHANGED <<loaded, model_locks, index_lock>>
  /\ UNCHANGED hist
  /\ UNCHANGED progVars

\* The lock is taken whether or not another caller holds it.
create_acquire_unlocked(t) ==
  /\ thr[t].pc = "create_acquire"
  /\ index_lock' = t
  /\ thr' = [thr EXCEPT ![t].pc = "create_adding"]
  /\ UNCHANGED <<loaded, model_locks>>
  /\ UNCHANGED hist
  /\ UNCHANGED progVars

\* with app.state.index_lock:
create_acquire(t) ==
  /\ thr[t].pc = "create_acquire"
  /\ index_lock = 0
  /\ index_lock' = t
  /\ thr' = [thr EXCEPT ![t].pc = "create_adding"]
  /\ UNCHANGED <<loaded, model_locks>>
  /\ UNCHANGED hist
  /\ UNCHANGED progVars

\* mapped_index.add_with_ids(embeddings, embedding_ids) ends; the with
\* block is left; return mapped_index.
create_add_with_ids(t) ==
  /\ thr[t].pc = "create_adding"
  /\ thr' = [thr EXCEPT ![t].pc = "done", ![t].outcome = "returned",
                        ![t].index.ids = thr[t].ids]
  /\ index_lock' = 0
  /\ UNCHANGED <<loaded, model_locks>>
  /\ UNCHANGED hist
  /\ UNCHANGED progVars

\* The caller has its result and makes its next call.
thread_return(t) ==
  /\ thr[t].pc = "done"
  /\ thr' = [thr EXCEPT ![t] = IdleThread]
  /\ UNCHANGED <<loaded, model_locks, index_lock>>
  /\ UNCHANGED hist
  /\ UNCHANGED progVars

NextAwait ==
  \E t \in Threads :
    \/ await_load(t) \/ load_enter(t) \/ load_acquire(t) \/ load_locked(t)
    \/ load_done(t) \/ load_clear_cache(t) \/ load_retry(t) \/ load_retry_done(t)
    \/ await_create(t) \/ create_new(t) \/ create_acquire(t)
    \/ create_add_with_ids(t) \/ thread_return(t)

SpecAwait == Init /\ [][NextAwait]_vars

\* ============================================================== SpecPredict
\* _predict as a caller that awaits it executes it: the handle the model
\* cache gives is loaded by the awaited _load, then configured, then asked
\* to predict. An error raised by _load leaves _predict.

\* await _predict(model_name, model_type, inputs): the model cache gives
\* the handle (line 205) and _load is entered.
await_predict(t) ==
  /\ thr[t].op = "idle"
  /\ \E m \in Models :
       thr' = [thr EXCEPT ![t] = [IdleThread EXCEPT
                 !.op = "_predict", !.pc = "load_enter", !.model = m]]
  /\ UNCHANGED <<loaded, model_locks, index_lock>>
  /\ UNCHANGED hist
  /\ UNCHANGED progVars

\* model.configure(**options)
predict_configure(t) ==
  /\ thr[t].pc = "configure"
  /\ thr' = [thr EXCEPT ![t].pc = "predict"]
  /\ UNCHANGED <<loaded, model_locks, index_lock>>
  /\ UNCHANGED hist
  /\ UNCHANGED progVars

\* return await run(model.predict, inputs): model.predict is called, inline
\* or on a worker of the pool.
predict_call(t) ==
  /\ thr[t].pc = "predict"
  /\ thr' = [thr EXCEPT ![t].pc = "done", ![t].outcome = "returned",
                        ![t].predicts = @ + 1]
  /\ UNCHANGED <<loaded, model_locks, index_lock>>
  /\ UNCHANGED hist
  /\ UNCHANGED progVars

NextPredict ==
  \E t \in Threads :
    \/ await_predict(t) \/ load_enter(t) \/ load_acquire(t) \/ load_locked(t)
    \/ load_done(t) \/ load_clear_cache(t) \/ load_retry(t) \/ load_retry_done(t)
    \/ predict_configure(t) \/ predict_call(t) \/ thread_return(t)

SpecPredict == Init /\ [][NextPredict]_vars

\* ================================================================== claims

ValidShape(r) == validate_embeddings(req[r].shape) # <<>>
Validated(r) == validate_embeddings(req[r].shape)
CountsMatch(r) == Validated(r)[1] = Len(req[r].embedding_ids)
Registered(n, d, ids) ==
  /\ n \in DOMAIN vector_stores
  /\ vector_stores[n].kind = "index"
  /\ vector_stores[n].d = d
  /\ vector_stores[n].ids = ids
Loading(t) == thr[t].pc \in {"loading", "reloading"}

\* C1: a call of _load whose first model.load() fails recoverably calls
\* clear_cache exactly once and load exactly once more; a failure of the
\* second load leaves _load as a raised error, with no further clear_cache
\* or load; without a recoverable first failure there is no clear_cache
\* and no second load.
C1_RetryOnce ==
  \A t \in Threads :
    thr[t].op = "_load" =>
      /\ thr[t].clears <= 1 /\ thr[t].loads <= 2
      /\ thr[t].first # "recoverable" => thr[t].clears = 0 /\ thr[t].loads <= 1
      /\ (thr[t].first = "recoverable" /\ thr[t].pc = "done")
           => thr[t].clears = 1 /\ thr[t].loads = 2
      /\ (thr[t].pc = "done" /\ thr[t].second \in {"recoverable", "other"})
           => thr[t].outcome = "raised"
      /\ (thr[t].pc = "done" /\ thr[t].second = "ok")
           => thr[t].outcome = "returned"

\* A call whose two loads both failed has ended, raising.
C1_Witness ==
  \E t \in Threads :
    /\ thr[t].op = "_load" /\ thr[t].pc = "done"
    /\ thr[t].first = "recoverable" /\ thr[t].second = "recoverable"
    /\ thr[t].outcome = "raised" /\ thr[t].clears = 1 /\ thr[t].loads = 2

\* C2: no two model.load() calls for models of one model type execute at
\* once, and every executing load, the retry included, is made by a caller
\* that holds that model type's lock.
C2_LoadsUnderLock ==
  /\ \A t \in Threads :
       Loading(t) => model_locks[model_type(thr[t].model)] = t
  /\ \A t, u \in Threads :
       (t # u /\ Loading(t) /\ Loading(u))
         => model_type(thr[t].model) # model_type(thr[u].model)

\* C3: at most one add_with_ids of _create executes at any time, and the
\* caller executing it holds the index lock.
C3_OneConstruction ==
  /\ Cardinality({t \in Threads : thr[t].pc = "create_adding"}) <= 1
  /\ \A t \in Threads : thr[t].pc = "create_adding" => index_lock = t

\* One caller builds while another waits for the index lock.
C3_Witness ==
  \E t, u \in Threads :
    /\ t # u
    /\ thr[t].pc = "create_adding"
    /\ thr[u].pc = "create_acquire"

\* C4: a create request with valid vectors and one id per vector, once
\* answered, was answered 200 and the registry maps its name to an index of
\* the vectors' dimensionality holding the given ids.
C4_CreateSucceeds ==
  \A r \in Reqs :
    (req[r].ep = "create" /\ req[r].pc = "done" /\ ValidShape(r) /\ CountsMatch(r))
      => /\ req[r].status = 200
         /\ Registered(req[r].index_name[1], Validated(r)[2], req[r].embedding_ids)

\* C5: a create request whose id count differs from its vector count never
\* calls _create, never reaches the registry assignment, and is answered 400.
C5_MismatchRejected ==
  \A r \in Reqs :
    (req[r].ep = "create" /\ ValidShape(r) /\ ~CountsMatch(r))
      => /\ "_create" \notin req[r].called
         /\ req[r].pc \notin {"await_executor", "create_assign"}
         /\ req[r].pc = "done" => req[r].status = 400

\* A create request with valid vectors and a wrong id count has been
\* answered 400.
C5_Witness ==
  \E r \in Reqs :
    /\ req[r].ep = "create" /\ req[r].pc = "done" /\ req[r].status = 400
    /\ ValidShape(r) /\ ~CountsMatch(r)
    /\ req[r].called = {}

\* C6: an add request with valid vectors and one id per vector that took
\* the create branch (name absent or of another dimensionality), once
\* answered, was answered 200 and the registry maps its name to an index of
\* the vectors' dimensionality holding the given ids.
C6_AddCreates ==
  \A r \in Reqs :
    (req[r].ep = "add" /\ req[r].pc = "done" /\ "_create" \in req[r].called)
      => /\ req[r].status = 200
         /\ Registered(req[r].index_name[1], Validated(r)[2], req[r].embedding_ids)

\* C7: the step of search that finds the name absent from the registry, or
\* registered with another dimensionality than the validated embeddings,
\* answers 404 and calls no _search.
C7_SearchNotFound ==
  [][\A r \in Reqs :
       (req[r].pc = "search" /\ req'[r] # req[r]
          /\ IndexMismatch(req[r].index_name[1], req[r].shape[2]))
         => /\ req'[r].pc = "done"
            /\ req'[r].status = 404
            /\ "_search" \notin req'[r].called]_vars

\* A search with valid embeddings has been answered 404 with no _search run.
C7_Witness ==
  \E r \in Reqs :
    /\ req[r].ep = "search" /\ req[r].pc = "done" /\ req[r].status = 404
    /\ ValidShape(r)
    /\ "_search" \notin req[r].called

C10_NonPositiveK ==
  \A r \in Reqs :
    (/\ req[r].pc = "done"
     /\ req[r].k # None
     /\ req[r].k[1] < 1
     /\ \/ req[r].ep = "search"
        \/ req[r].ep = "pipeline" /\ req[r].index_name # None)
      => /\ req[r].status = 400
         /\ "_search" \notin req[r].called

\* C12: the validation step accepts the embeddings exactly when their array
\* has 1 or 2 axes and at least 10 columns; a 2-axis array keeps its shape,
\* a 1-axis array of length n becomes 1 x n, and every other array is
\* answered 400.
C12_ValidateEmbeddings ==
  [][\A r \in Reqs :
       (req[r].pc = "validate" /\ req'[r] # req[r]) =>
         LET raw == req[r].shape
             accepted == req'[r].pc # "done"
         IN  /\ accepted <=> (/\ Len(raw) \in {1, 2}
                              /\ raw[Len(raw)] >= 10)
             /\ (accepted /\ Len(raw) = 2) => req'[r].shape = raw
             /\ (accepted /\ Len(raw) = 1) => req'[r].shape = <<1, raw[1]>>
             /\ ~accepted => req'[r].status = 400]_vars

\* A request whose embeddings have exactly 10 columns has passed validation
\* and is at its handler.
C12_Witness ==
  \E r \in Reqs :
    /\ req[r].pc \in {"search", "add", "create"}
    /\ req[r].shape = <<1, 10>>

\* C13: a pipeline request that is not rejected calls _predict, then
\* _search exactly when indexName and k are given, then _add exactly when
\* indexName and embeddingId are given, and is answered 200 with the latest
\* computed result: the search result when a search ran, the predict
\* output otherwise.
C13_PipelineLatestResult ==
  \A r \in Reqs :
    (req[r].ep = "pipeline" /\ req[r].pc = "done" /\ req[r].status # 400) =>
      /\ "_predict" \in req[r].called
      /\ "_search" \in req[r].called
           <=> (req[r].index_name # None /\ req[r].k # None)
      /\ "_add" \in req[r].called
           <=> (req[r].index_name # None /\ req[r].embedding_id # None)
      /\ req[r].status = 200
      /\ req[r].outputs # "coroutine"
      /\ req[r].outputs_of
           = IF "_search" \in req[r].called THEN "_search" ELSE "_predict"

\* C14: the vectors a pipeline request hands to its add step are the
\* output of its predict step, whether or not a search step ran.
C14_AddStoresPrediction ==
  \A r \in Reqs :
    (req[r].ep = "pipeline" /\ "_add" \in req[r].called)
      => req[r].add_arg = "_predict"

\* C15: what await run(func, ...) gives its caller is the value func
\* computed or the error func raised, never a coroutine that has not run,
\* with a thread pool and without.
C15_RunExecutes ==
  \A r \in Reqs : req[r].result # "coroutine"

C17_LoadOnce ==
  ~load_failed => \A m \in Models : nloads[m] <= 1

\* No load has failed; one caller has loaded a handle and gone on, and
\* another caller, holding the type's lock, is about to find it loaded.
C17_Witness ==
  /\ ~load_failed
  /\ \E t, u \in Threads :
       /\ t # u
       /\ thr[t].model = thr[u].model
       /\ thr[t].loads = 1 /\ thr[t].first = "ok"
       /\ thr[u].pc = "load_locked" /\ thr[u].loads = 0
       /\ loaded[thr[u].model]
       /\ nloads[thr[u].model] = 1

\* C18: a caller of _predict reaches configure and predict only with its
\* handle loaded, after a load that succeeded (its own first load or its
\* own retry, or another caller's); a call whose loading failed calls no
\* predict.
C18_PredictAfterLoad ==
  \A t \in Threads :
    thr[t].op = "_predict" =>
      /\ thr[t].pc \in {"configure", "predict"} => loaded[thr[t].model]
      /\ thr[t].predicts > 0
           => /\ loaded[thr[t].model]
              /\ thr[t].first \in {"none", "ok"} \/ thr[t].second = "ok"
      /\ (thr[t].first = "other" \/ thr[t].second \in {"recoverable", "other"})
           => /\ thr[t].predicts = 0
              /\ thr[t].pc = "done" /\ thr[t].outcome = "raised"

\* A call whose first load failed and whose retry succeeded has called
\* predict.
C18_Witness ==
  \E t \in Threads :
    /\ thr[t].op = "_predict" /\ thr[t].pc = "done"
    /\ thr[t].first = "recoverable" /\ thr[t].second = "ok"
    /\ thr[t].predicts = 1
====
